---- MODULE Spec2Model ----
(***************************************************************************)
(* Model of discord_image_bot.py: the scrape -> dedup -> queue -> batch    *)
(* delivery loop (continuous_scrape_and_send), the scraper                 *)
(* (scrape_new_images) and the three slash commands.                       *)
(*                                                                         *)
(* The bot runs on one asyncio event loop, so code between two awaits is   *)
(* atomic.  pc is the position of the background task; the positions in    *)
(* SuspensionPoints are its awaits, where a slash command may run.  The    *)
(* positions "step1" and "drain" are inside one atomic stretch of code and *)
(* only split it into the blocks of the source.                            *)
(***************************************************************************)
EXTENDS Integers, Sequences, FiniteSets, TLC

\* ------------------------------------------------------------------ bounds
\* longest page (number of img elements) a scrape returns
MaxPageLen == 3
\* page_number is not advanced beyond this cursor
MaxPageNumber == 2
\* largest configured BATCH_SIZE explored
MaxBatchSize == 2

\* ------------------------------------------------------- values of the model
None == "None"

Channels == {"ch1", "ch2"}

\* src attributes an img element may carry; "" stands for a missing or empty src
Srcs == {"", "/a.png", "https://site/a.png", "/b.png"}

References == {"https://site/a.png", "https://site/b.png"}

\* urljoin(SCRAPE_URL, src): a relative src is resolved against the site,
\* an absolute one is kept
urljoin(src) ==
    CASE src = "/a.png" -> "https://site/a.png"
      [] src = "/b.png" -> "https://site/b.png"
      [] OTHER -> src

RECURSIVE SeqsUpTo(_, _)
SeqsUpTo(S, n) ==
    IF n = 0 THEN {<<>>}
    ELSE LET shorter == SeqsUpTo(S, n - 1)
         IN  shorter \cup {Append(s, x) : s \in {t \in shorter : Len(t) = n - 1}, x \in S}

\* the pages (document-order lists of img src attributes) a fetch may return
Pages == SeqsUpTo(Srcs, MaxPageLen)

Range(s) == {s[i] : i \in 1..Len(s)}

Min(a, b) == IF a <= b THEN a ELSE b

VARIABLES
    sent_images,          \* set of Reference
    image_queue,          \* sequence of Reference
    page_number,          \* the page cursor
    TARGET_CHANNEL_ID,    \* None or a channel id
    ENV_CHANNEL_ID,       \* configuration: None or a channel id
    BATCH_SIZE,           \* configuration: batch size
    pc,                   \* position of the background task
    stop_next_iteration,  \* Loop._stop_next_iteration
    channel,              \* the tick's effective_target / resolved channel
    batch,                \* the batch popped and awaiting its send result
    response,             \* the interaction reply sent by the step just taken
    outcome,              \* what the step just taken met: a fetch or send result
    send_count,           \* history: successful sends containing each Reference (capped at 2)
    stopped_in,           \* history: pc at which the pending stop() was called
    requested,            \* the url requested by the scrape in the step just taken
    last_failed,          \* history: the batch whose send failed, until the next pop
    appended              \* history: every Reference ever appended to image_queue

vars == <<sent_images, image_queue, page_number, TARGET_CHANNEL_ID, ENV_CHANNEL_ID,
          BATCH_SIZE, pc, stop_next_iteration, channel, batch, response,
          outcome, send_count, stopped_in, requested, last_failed, appended>>

\* the awaits of the background task (and the states where no task exists)
SuspensionPoints ==
    {"stopped", "starting", "waiting", "resolving", "backoff", "sending", "batch_delay"}

\* continuous_scrape_and_send.is_running(): a task exists and is not done
is_running == pc # "stopped"

NoResponse == [msg |-> "none"]

\* no scrape in this step
NoRequest == [base |-> "none", paged |-> FALSE, pid |-> 0]

Reply(m) == [msg |-> m]

Init ==
    /\ sent_images = {}
    /\ image_queue = <<>>
    /\ page_number = 0
    /\ TARGET_CHANNEL_ID = None
    /\ ENV_CHANNEL_ID \in {None, "ch1"}
    /\ BATCH_SIZE \in 1..MaxBatchSize
    /\ pc = "stopped"
    /\ stop_next_iteration = FALSE
    /\ channel = None
    /\ batch = <<>>
    /\ response = NoResponse
    /\ outcome = "none"
    /\ send_count = [r \in References |-> 0]
    /\ stopped_in = "none"
    /\ requested = NoRequest
    /\ last_failed = <<>>
    /\ appended = {}


\* ------------------------------------------------------------ pure helpers
\* the loop of scrape_new_images over soup.find_all("img"), in document order
RECURSIVE new_images(_, _, _)
new_images(imgs, sent, queue) ==
    IF imgs = <<>> THEN <<>>
    ELSE LET src == Head(imgs)
             full_url == urljoin(src)
             more == new_images(Tail(imgs), sent, queue)
         IN  IF src = "" THEN more
             ELSE IF full_url \notin sent /\ full_url \notin Range(queue)
                  THEN <<full_url>> \o more
                  ELSE more

\* the pagination stride of the scraped site
PAGE_STRIDE == 42

\* mutant: the cursor itself is used as the offset
scrape_url_unscaled(page) ==
    IF page = 0
    THEN [base |-> "SCRAPE_URL", paged |-> FALSE, pid |-> 0]
    ELSE [base |-> "SCRAPE_URL", paged |-> TRUE, pid |-> page]

\* url = SCRAPE_URL if offset == 0 else f"{SCRAPE_URL}+&pid={offset}"
scrape_url(page) ==
    LET offset == page * PAGE_STRIDE
    IN  IF offset = 0
        THEN [base |-> "SCRAPE_URL", paged |-> FALSE, pid |-> 0]
        ELSE [base |-> "SCRAPE_URL", paged |-> TRUE, pid |-> offset]

\* mutant: the cursor is advanced whether or not something new was found
advance_page_always(found, page) ==
    page + 1

\* page_number after a scrape that fetched and parsed its page
advance_page(found, page) ==
    IF found # <<>> THEN 0 ELSE page + 1

\* [image_queue.pop(0) for _ in range(n)]: n pops from the front, one at a time
RECURSIVE pop_front(_, _)
pop_front(queue, n) ==
    IF n = 0 THEN [batch |-> <<>>, rest |-> queue]
    ELSE LET later == pop_front(Tail(queue), n - 1)
         IN  [batch |-> <<Head(queue)>> \o later.batch, rest |-> later.rest]

\* mutant: the batch is not capped at what the queue holds beyond one item
pop_batch_one_short(queue, size) ==
    pop_front(queue, Min(size, Len(queue)) - 1)

\* the batch popped by the drain loop and the queue it leaves
pop_batch(queue, size) ==
    pop_front(queue, Min(size, Len(queue)))

\* mutant: the failed batch is put back at the end of the queue
push_back_at_end(queue, b) ==
    queue \o b

\* image_queue[0:0] = batch
push_back(queue, b) ==
    [i \in 1..(Len(b) + Len(queue)) |-> IF i <= Len(b) THEN b[i] ELSE queue[i - Len(b)]]

\* TARGET_CHANNEL_ID or ENV_CHANNEL_ID
effective_target ==
    IF TARGET_CHANNEL_ID # None THEN TARGET_CHANNEL_ID ELSE ENV_CHANNEL_ID

\* sent_images.update(batch), as seen by the delivery history
counted(b) ==
    [r \in References |-> IF r \in Range(b) THEN Min(send_count[r] + 1, 2) ELSE send_count[r]]

\* ------------------------------------------------------ the background task
\* the body of the tick may begin: the first iteration of a started task that
\* was not stopped meanwhile, or the sleep between two iterations is over
TickEnabled ==
    \/ pc = "waiting"
    \/ pc = "starting" /\ ~stop_next_iteration

\* the tick returns: Loop._loop ends the task if stop() was called, else sleeps
\* until the next iteration
EndOfIteration ==
    /\ pc' = IF stop_next_iteration THEN "stopped" ELSE "waiting"
    /\ stop_next_iteration' = FALSE
    /\ stopped_in' = "none"
    /\ channel' = None
    /\ batch' = <<>>

Quiet ==
    /\ response' = NoResponse
    /\ outcome' = "none"
    /\ requested' = NoRequest

\* stop() was called before the first iteration: the task ends without a tick
StartCancelled ==
    /\ pc = "starting" /\ stop_next_iteration
    /\ pc' = "stopped"
    /\ stop_next_iteration' = FALSE
    /\ stopped_in' = "none"
    /\ Quiet
    /\ UNCHANGED <<sent_images, image_queue, page_number, TARGET_CHANNEL_ID,
                   ENV_CHANNEL_ID, BATCH_SIZE, channel, batch, send_count>>
    /\ UNCHANGED last_failed
    /\ UNCHANGED appended

TickNoTarget ==
    /\ TickEnabled
    /\ effective_target = None
    /\ pc' = "backoff"
    /\ response' = NoResponse
    /\ outcome' = "no_target"
    /\ UNCHANGED <<sent_images, image_queue, page_number, TARGET_CHANNEL_ID,
                   ENV_CHANNEL_ID, BATCH_SIZE, stop_next_iteration, channel, batch,
                   send_count, stopped_in>>
    /\ requested' = NoRequest
    /\ UNCHANGED last_failed
    /\ UNCHANGED appended

\* bot.get_channel finds the channel in the cache
TickCached ==
    /\ TickEnabled
    /\ effective_target # None
    /\ channel' = effective_target
    /\ pc' = "step1"
    /\ Quiet
    /\ UNCHANGED <<sent_images, image_queue, page_number, TARGET_CHANNEL_ID,
                   ENV_CHANNEL_ID, BATCH_SIZE, stop_next_iteration, batch,
                   send_count, stopped_in>>
    /\ UNCHANGED last_failed
    /\ UNCHANGED appended

\* bot.get_channel misses: await bot.fetch_channel
TickFetch ==
    /\ TickEnabled
    /\ effective_target # None
    /\ channel' = effective_target
    /\ pc' = "resolving"
    /\ Quiet
    /\ UNCHANGED <<sent_images, image_queue, page_number, TARGET_CHANNEL_ID,
                   ENV_CHANNEL_ID, BATCH_SIZE, stop_next_iteration, batch,
                   send_count, stopped_in>>
    /\ UNCHANGED last_failed
    /\ UNCHANGED appended

FetchChannelOk ==
    /\ pc = "resolving"
    /\ pc' = "step1"
    /\ Quiet
    /\ UNCHANGED <<sent_images, image_queue, page_number, TARGET_CHANNEL_ID,
                   ENV_CHANNEL_ID, BATCH_SIZE, stop_next_iteration, channel, batch,
                   send_count, stopped_in>>
    /\ UNCHANGED last_failed
    /\ UNCHANGED appended

\* mutant: an unresolved channel does not end the tick
FetchChannelFailProceeds ==
    /\ pc = "resolving"
    /\ channel' = None
    /\ pc' = "step1"
    /\ response' = NoResponse
    /\ outcome' = "unresolved"
    /\ requested' = NoRequest
    /\ UNCHANGED <<sent_images, image_queue, page_number, TARGET_CHANNEL_ID,
                   ENV_CHANNEL_ID, BATCH_SIZE, stop_next_iteration, batch,
                   send_count, stopped_in, last_failed, appended>>

FetchChannelFail ==
    /\ pc = "resolving"
    /\ channel' = None
    /\ pc' = "backoff"
    /\ response' = NoResponse
    /\ outcome' = "unresolved"
    /\ UNCHANGED <<sent_images, image_queue, page_number, TARGET_CHANNEL_ID,
                   ENV_CHANNEL_ID, BATCH_SIZE, stop_next_iteration, batch,
                   send_count, stopped_in>>
    /\ requested' = NoRequest
    /\ UNCHANGED last_failed
    /\ UNCHANGED appended

\* mutant: Step 1 scrapes although the queue still holds references
SkipScrapeScrapes ==
    /\ pc = "step1"
    /\ image_queue # <<>>
    /\ pc' = "drain"
    /\ response' = NoResponse
    /\ outcome' = "fetch_error"
    /\ requested' = scrape_url(page_number)
    /\ UNCHANGED <<sent_images, image_queue, page_number, TARGET_CHANNEL_ID,
                   ENV_CHANNEL_ID, BATCH_SIZE, stop_next_iteration, channel, batch,
                   send_count, stopped_in, last_failed, appended>>

\* Step 1 with a queue that still holds references: no scrape
SkipScrape ==
    /\ pc = "step1"
    /\ image_queue # <<>>
    /\ pc' = "drain"
    /\ Quiet
    /\ UNCHANGED <<sent_images, image_queue, page_number, TARGET_CHANNEL_ID,
                   ENV_CHANNEL_ID, BATCH_SIZE, stop_next_iteration, channel, batch,
                   send_count, stopped_in>>
    /\ UNCHANGED last_failed
    /\ UNCHANGED appended

\* Step 1, scrape_new_images fetches and parses a page
ScrapeOk ==
    /\ pc = "step1"
    /\ image_queue = <<>>
    /\ \E page \in Pages :
          LET found == new_images(page, sent_images, image_queue)
          IN  /\ found = <<>> => page_number < MaxPageNumber
              /\ image_queue' = IF found # <<>> THEN image_queue \o found ELSE image_queue
              /\ page_number' = advance_page(found, page_number)
              /\ appended' = appended \cup Range(found)
    /\ pc' = IF image_queue' = <<>> THEN "backoff" ELSE "drain"
    /\ outcome' = "fetch_ok"
    /\ response' = NoResponse
    /\ UNCHANGED <<sent_images, TARGET_CHANNEL_ID, ENV_CHANNEL_ID, BATCH_SIZE,
                   stop_next_iteration, channel, batch, send_count, stopped_in>>
    /\ requested' = scrape_url(page_number)
    /\ UNCHANGED last_failed

\* mutant: a failed fetch advances the cursor like an empty page
ScrapeErrorAdvances ==
    /\ pc = "step1"
    /\ image_queue = <<>>
    /\ page_number < MaxPageNumber
    /\ page_number' = page_number + 1
    /\ pc' = "backoff"
    /\ outcome' = "fetch_error"
    /\ response' = NoResponse
    /\ UNCHANGED <<sent_images, image_queue, TARGET_CHANNEL_ID, ENV_CHANNEL_ID,
                   BATCH_SIZE, stop_next_iteration, channel, batch, send_count,
                   stopped_in>>
    /\ requested' = scrape_url(page_number)
    /\ UNCHANGED last_failed
    /\ UNCHANGED appended

\* Step 1, requests.get or raise_for_status raises: the except clause logs
ScrapeError ==
    /\ pc = "step1"
    /\ image_queue = <<>>
    /\ pc' = "backoff"
    /\ outcome' = "fetch_error"
    /\ response' = NoResponse
    /\ UNCHANGED <<sent_images, image_queue, page_number, TARGET_CHANNEL_ID,
                   ENV_CHANNEL_ID, BATCH_SIZE, stop_next_iteration, channel, batch,
                   send_count, stopped_in>>
    /\ requested' = scrape_url(page_number)
    /\ UNCHANGED last_failed
    /\ UNCHANGED appended

\* while image_queue: the queue is empty, the tick returns
DrainDone ==
    /\ pc = "drain"
    /\ image_queue = <<>>
    /\ EndOfIteration
    /\ Quiet
    /\ UNCHANGED <<sent_images, image_queue, page_number, TARGET_CHANNEL_ID,
                   ENV_CHANNEL_ID, BATCH_SIZE, send_count>>
    /\ UNCHANGED last_failed
    /\ UNCHANGED appended

\* a batch is popped, the bot lacks send_messages: return
DrainPermissionDenied ==
    /\ pc = "drain"
    /\ image_queue # <<>>
    /\ image_queue' = pop_batch(image_queue, BATCH_SIZE).rest
    /\ EndOfIteration
    /\ response' = NoResponse
    /\ outcome' = "permission_denied"
    /\ UNCHANGED <<sent_images, page_number, TARGET_CHANNEL_ID, ENV_CHANNEL_ID,
                   BATCH_SIZE, send_count>>
    /\ requested' = NoRequest
    /\ last_failed' = <<>>
    /\ UNCHANGED appended

\* a batch is popped, the permission check passes: await channel.send
DrainSend ==
    /\ pc = "drain"
    /\ image_queue # <<>>
    /\ batch' = pop_batch(image_queue, BATCH_SIZE).batch
    /\ image_queue' = pop_batch(image_queue, BATCH_SIZE).rest
    /\ pc' = "sending"
    /\ Quiet
    /\ UNCHANGED <<sent_images, page_number, TARGET_CHANNEL_ID, ENV_CHANNEL_ID,
                   BATCH_SIZE, stop_next_iteration, channel, send_count, stopped_in>>
    /\ last_failed' = <<>>
    /\ UNCHANGED appended

\* channel.send returns: sent_images.update(batch), then the inter-batch sleep
SendOk ==
    /\ pc = "sending"
    /\ sent_images' = sent_images \cup Range(batch)
    /\ send_count' = counted(batch)
    /\ batch' = <<>>
    /\ pc' = "batch_delay"
    /\ response' = NoResponse
    /\ outcome' = "send_ok"
    /\ UNCHANGED <<image_queue, page_number, TARGET_CHANNEL_ID, ENV_CHANNEL_ID,
                   BATCH_SIZE, stop_next_iteration, channel, stopped_in>>
    /\ requested' = NoRequest
    /\ UNCHANGED last_failed
    /\ UNCHANGED appended

\* mutant: a failed batch is credited as delivered
SendFailCredits ==
    /\ pc = "sending"
    /\ image_queue' = push_back(image_queue, batch)
    /\ sent_images' = sent_images \cup Range(batch)
    /\ batch' = <<>>
    /\ pc' = "backoff"
    /\ response' = NoResponse
    /\ outcome' = "send_failed"
    /\ UNCHANGED <<page_number, TARGET_CHANNEL_ID, ENV_CHANNEL_ID, BATCH_SIZE,
                   stop_next_iteration, channel, send_count, stopped_in>>
    /\ requested' = NoRequest
    /\ last_failed' = batch
    /\ UNCHANGED appended

\* mutant: after a failed send the drain loop goes on with the next batch
SendFailContinues ==
    /\ pc = "sending"
    /\ image_queue' = push_back(image_queue, batch)
    /\ batch' = <<>>
    /\ pc' = "drain"
    /\ response' = NoResponse
    /\ outcome' = "send_failed"
    /\ requested' = NoRequest
    /\ last_failed' = batch
    /\ UNCHANGED <<sent_images, page_number, TARGET_CHANNEL_ID, ENV_CHANNEL_ID,
                   BATCH_SIZE, stop_next_iteration, channel, send_count, stopped_in,
                   appended>>

\* channel.send raises: the batch is pushed back, then the CHECK_INTERVAL sleep
SendFail ==
    /\ pc = "sending"
    /\ image_queue' = push_back(image_queue, batch)
    /\ batch' = <<>>
    /\ pc' = "backoff"
    /\ response' = NoResponse
    /\ outcome' = "send_failed"
    /\ UNCHANGED <<sent_images, page_number, TARGET_CHANNEL_ID, ENV_CHANNEL_ID,
                   BATCH_SIZE, stop_next_iteration, channel, send_count, stopped_in>>
    /\ requested' = NoRequest
    /\ last_failed' = batch
    /\ UNCHANGED appended

\* asyncio.sleep(DELAY_BETWEEN_BATCHES) is over: back to the while condition
BatchDelayDone ==
    /\ pc = "batch_delay"
    /\ pc' = "drain"
    /\ Quiet
    /\ UNCHANGED <<sent_images, image_queue, page_number, TARGET_CHANNEL_ID,
                   ENV_CHANNEL_ID, BATCH_SIZE, stop_next_iteration, channel, batch,
                   send_count, stopped_in>>
    /\ UNCHANGED last_failed
    /\ UNCHANGED appended

\* asyncio.sleep(CHECK_INTERVAL) is over: return
BackoffDone ==
    /\ pc = "backoff"
    /\ EndOfIteration
    /\ Quiet
    /\ UNCHANGED <<sent_images, image_queue, page_number, TARGET_CHANNEL_ID,
                   ENV_CHANNEL_ID, BATCH_SIZE, send_count>>
    /\ UNCHANGED last_failed
    /\ UNCHANGED appended

\* ----------------------------------------------------------- slash commands
\* lines 157-162 of cookie_command: explicit arg -> ENV_CHANNEL_ID -> interaction.channel
target_channel_obj(arg, env_resolves, here) ==
    IF arg # None THEN arg
    ELSE IF ENV_CHANNEL_ID # None
         THEN (IF env_resolves THEN ENV_CHANNEL_ID ELSE None)
         ELSE here

\* every channel the three sources of cookie_command can yield (None: undetermined)
ResolvableTargets ==
    {target_channel_obj(arg, env_resolves, here) :
        arg \in Channels \cup {None}, env_resolves \in BOOLEAN, here \in Channels \cup {None}}

Command(m) ==
    /\ pc \in SuspensionPoints
    /\ response' = m
    /\ outcome' = "none"
    /\ requested' = NoRequest

CookieNoChannel ==
    /\ None \in ResolvableTargets
    /\ Command(Reply("no_channel"))
    /\ UNCHANGED <<sent_images, image_queue, page_number, TARGET_CHANNEL_ID,
                   ENV_CHANNEL_ID, BATCH_SIZE, pc, stop_next_iteration, channel, batch,
                   send_count, stopped_in>>
    /\ UNCHANGED last_failed
    /\ UNCHANGED appended

CookieNoPermission ==
    /\ ResolvableTargets \ {None} # {}
    /\ Command(Reply("no_permission"))
    /\ UNCHANGED <<sent_images, image_queue, page_number, TARGET_CHANNEL_ID,
                   ENV_CHANNEL_ID, BATCH_SIZE, pc, stop_next_iteration, channel, batch,
                   send_count, stopped_in>>
    /\ UNCHANGED last_failed
    /\ UNCHANGED appended

\* mutant: the task is started again although it is running
CookieAlreadyRunningRestarts ==
    /\ is_running
    /\ \E target \in ResolvableTargets \ {None} :
          TARGET_CHANNEL_ID' = target
    /\ pc \in SuspensionPoints
    /\ pc' = "starting"
    /\ response' = Reply("already_running")
    /\ outcome' = "none"
    /\ requested' = NoRequest
    /\ UNCHANGED <<sent_images, image_queue, page_number, ENV_CHANNEL_ID, BATCH_SIZE,
                   stop_next_iteration, channel, batch, send_count, stopped_in,
                   last_failed, appended>>

CookieAlreadyRunning ==
    /\ is_running
    /\ \E target \in ResolvableTargets \ {None} :
          TARGET_CHANNEL_ID' = target
    /\ Command(Reply("already_running"))
    /\ UNCHANGED <<sent_images, image_queue, page_number, ENV_CHANNEL_ID, BATCH_SIZE,
                   pc, stop_next_iteration, channel, batch, send_count, stopped_in>>
    /\ UNCHANGED last_failed
    /\ UNCHANGED appended

\* continuous_scrape_and_send.start(): a new task, suspended before its first iteration
CookieStart ==
    /\ ~is_running
    /\ \E target \in ResolvableTargets \ {None} :
          TARGET_CHANNEL_ID' = target
    /\ pc \in SuspensionPoints
    /\ pc' = "starting"
    /\ response' = Reply("started")
    /\ outcome' = "none"
    /\ UNCHANGED <<sent_images, image_queue, page_number, ENV_CHANNEL_ID, BATCH_SIZE,
                   stop_next_iteration, channel, batch, send_count, stopped_in>>
    /\ requested' = NoRequest
    /\ UNCHANGED last_failed
    /\ UNCHANGED appended

\* mutant: stopping also empties the pending queue
StopRunningClearsQueue ==
    /\ is_running
    /\ stop_next_iteration' = TRUE
    /\ stopped_in' = IF stop_next_iteration THEN stopped_in ELSE pc
    /\ TARGET_CHANNEL_ID' = None
    /\ image_queue' = <<>>
    /\ Command(Reply("stopped"))
    /\ UNCHANGED <<sent_images, page_number, ENV_CHANNEL_ID, BATCH_SIZE,
                   pc, channel, batch, send_count, last_failed, appended>>

\* continuous_scrape_and_send.stop() is graceful: it only sets the flag that the
\* task reads when its current iteration has returned
StopRunning ==
    /\ is_running
    /\ stop_next_iteration' = TRUE
    /\ stopped_in' = IF stop_next_iteration THEN stopped_in ELSE pc
    /\ TARGET_CHANNEL_ID' = None
    /\ Command(Reply("stopped"))
    /\ UNCHANGED <<sent_images, image_queue, page_number, ENV_CHANNEL_ID, BATCH_SIZE,
                   pc, channel, batch, send_count>>
    /\ UNCHANGED last_failed
    /\ UNCHANGED appended

StopNotRunning ==
    /\ ~is_running
    /\ Command(Reply("not_running"))
    /\ UNCHANGED <<sent_images, image_queue, page_number, TARGET_CHANNEL_ID,
                   ENV_CHANNEL_ID, BATCH_SIZE, pc, stop_next_iteration, channel, batch,
                   send_count, stopped_in>>
    /\ UNCHANGED last_failed
    /\ UNCHANGED appended

status_command ==
    /\ Command([msg |-> "status",
                running |-> is_running,
                queue_size |-> Len(image_queue),
                sent_count |-> Cardinality(sent_images),
                current_page |-> page_number + 1,
                target |-> effective_target])
    /\ UNCHANGED <<sent_images, image_queue, page_number, TARGET_CHANNEL_ID,
                   ENV_CHANNEL_ID, BATCH_SIZE, pc, stop_next_iteration, channel, batch,
                   send_count, stopped_in>>
    /\ UNCHANGED last_failed
    /\ UNCHANGED appended

\* ------------------------------------------------------------ specification
Next ==
    \/ StartCancelled
    \/ TickNoTarget
    \/ TickCached
    \/ TickFetch
    \/ FetchChannelOk
    \/ FetchChannelFail
    \/ SkipScrape
    \/ ScrapeOk
    \/ ScrapeError
    \/ DrainDone
    \/ DrainPermissionDenied
    \/ DrainSend
    \/ SendOk
    \/ SendFail
    \/ BatchDelayDone
    \/ BackoffDone
    \/ CookieNoChannel
    \/ CookieNoPermission
    \/ CookieAlreadyRunning
    \/ CookieStart
    \/ StopRunning
    \/ StopNotRunning
    \/ status_command

Spec == Init /\ [][Next]_vars

\* the steps of the background task while no stop_command is ever issued
LoopStep ==
    \/ TickCached
    \/ TickFetch
    \/ FetchChannelOk
    \/ FetchChannelFail
    \/ SkipScrape
    \/ ScrapeOk
    \/ ScrapeError
    \/ DrainDone
    \/ DrainPermissionDenied
    \/ DrainSend
    \/ SendOk
    \/ SendFail
    \/ BatchDelayDone
    \/ BackoffDone

\* the instance is started and retargeted but never stopped
LiveNext ==
    \/ LoopStep
    \/ CookieStart
    \/ CookieAlreadyRunning

\* the event loop resumes the task whenever the sleep, fetch or send it awaits
\* is over: weak fairness of the task's steps
LiveSpec == Init /\ [][LiveNext]_vars /\ WF_vars(LoopStep)

TypeOK ==
    /\ sent_images \subseteq References
    /\ image_queue \in SeqsUpTo(References, MaxPageLen)
    /\ page_number \in 0..MaxPageNumber
    /\ TARGET_CHANNEL_ID \in Channels \cup {None}
    /\ pc \in SuspensionPoints \cup {"step1", "drain"}
    /\ stop_next_iteration \in BOOLEAN
    /\ batch \in SeqsUpTo(References, MaxBatchSize)
    /\ outcome \in {"none", "no_target", "unresolved", "fetch_ok", "fetch_error", "send_ok", "send_failed",
                   "permission_denied"}

\* ------------------------------------------------------------------ claims

\* C1: no duplicate delivery -- every Reference is contained in at most one
\* batch for which channel.send succeeded.
NoDuplicateDelivery ==
    \A r \in References : send_count[r] <= 1

\* C2: at-least-once on failure -- when channel.send raises for the popped
\* batch B, the queue right after the failure handling is B, in its original
\* order, followed by the queue contents that remained after the pop.
FailedBatchBackAtFront ==
    [][outcome' = "send_failed" =>
          /\ pc = "sending"
          /\ image_queue' = batch \o image_queue
          /\ SubSeq(image_queue', 1, Len(batch)) = batch
          /\ Len(image_queue') = Len(batch) + Len(image_queue)]_vars

\* a send failed for a batch that left references behind it in the queue
FailedBatchBackAtFrontWitness ==
    /\ outcome = "send_failed"
    /\ pc = "backoff"
    /\ Len(image_queue) > BATCH_SIZE

\* C3: sent_images never shrinks; it grows only in the step that handles a
\* successful channel.send, by the members of that batch; a batch whose send
\* fails adds nothing (the delivered count is unchanged).
DeliveredOnlyOnSuccess ==
    [][/\ sent_images \subseteq sent_images'
       /\ sent_images' # sent_images =>
             /\ pc = "sending"
             /\ outcome' = "send_ok"
             /\ sent_images' = sent_images \cup Range(batch)
       /\ outcome' = "send_failed" =>
             /\ sent_images' = sent_images
             /\ Cardinality(sent_images') = Cardinality(sent_images)]_vars

\* a send failed for a batch holding a reference that was never delivered
DeliveredOnlyOnSuccessWitness ==
    /\ outcome = "send_failed"
    /\ image_queue # <<>>
    /\ Head(image_queue) \notin sent_images
    /\ sent_images # {}

\* C4: every batch handed to channel.send is the front prefix of the queue at
\* pop time, of size min(BATCH_SIZE, queue length) >= 1, and the queue keeps
\* the rest in order.
BatchIsFrontPrefix ==
    [][(pc # "sending" /\ pc' = "sending") =>
          LET n == IF BATCH_SIZE <= Len(image_queue) THEN BATCH_SIZE ELSE Len(image_queue)
          IN  /\ pc = "drain"
              /\ n >= 1
              /\ Len(batch') = n
              /\ batch' = SubSeq(image_queue, 1, n)
              /\ image_queue' = SubSeq(image_queue, n + 1, Len(image_queue))]_vars

\* a remainder smaller than BATCH_SIZE is being sent after an earlier delivery
BatchIsFrontPrefixWitness ==
    /\ pc = "sending"
    /\ Len(batch) < BATCH_SIZE
    /\ image_queue = <<>>
    /\ sent_images # {}

\* C5: a scrape that fetched and parsed its page leaves page_number at 0 if it
\* admitted a reference to the queue and at the previous value + 1 otherwise;
\* page_number is never negative and no other step changes it.
PaginationAdvance ==
    [][/\ outcome' = "fetch_ok" =>
             page_number' = IF Len(image_queue') > Len(image_queue) THEN 0
                            ELSE page_number + 1
       /\ page_number' # page_number => outcome' = "fetch_ok"
       /\ page_number >= 0 /\ page_number' >= 0]_vars

\* a scrape found nothing new on a page other than the first
PaginationAdvanceWitness ==
    /\ outcome = "fetch_ok"
    /\ page_number = 2
    /\ image_queue = <<>>
    /\ sent_images # {}

\* C6 as stated: a scrape whose fetch fails leaves queue, delivered set and
\* running flag alone, backs off, and advances page_number like a scrape that
\* found nothing new.
FetchFailureAdvancesCursor ==
    [][outcome' = "fetch_error" =>
          /\ image_queue' = image_queue
          /\ sent_images' = sent_images
          /\ is_running /\ is_running'
          /\ pc' = "backoff"
          /\ page_number' = page_number + 1]_vars

\* C6 as amended: a scrape whose fetch fails leaves queue, delivered set,
\* running flag and page_number alone (the same page is requested again), and
\* backs off.
FetchFailureKeepsCursor ==
    [][outcome' = "fetch_error" =>
          /\ image_queue' = image_queue
          /\ sent_images' = sent_images
          /\ is_running /\ is_running'
          /\ pc' = "backoff"
          /\ page_number' = page_number]_vars

\* a fetch failed on a page other than the first
FetchFailureKeepsCursorWitness ==
    /\ outcome = "fetch_error"
    /\ pc = "backoff"
    /\ page_number > 0

\* C7: no Reference is in image_queue and in sent_images at once.
QueueDisjointFromSent ==
    Range(image_queue) \cap sent_images = {}

\* C8: once the channel.send that was in flight when stop_command ran has
\* completed, the task sends no further batch and changes none of image_queue,
\* sent_images, page_number.
StopEndsWorkAfterInFlightSend ==
    [][(stop_next_iteration /\ stopped_in = "sending" /\ pc \in {"batch_delay", "drain"}) =>
          /\ pc' # "sending"
          /\ image_queue' = image_queue
          /\ sent_images' = sent_images
          /\ page_number' = page_number]_vars

\* C9: when the permission check before a delivery fails, the popped batch is
\* back at the front of the queue, none of its members is lost, and the
\* instance backs off.
PermissionDeniedRequeues ==
    [][outcome' = "permission_denied" =>
          /\ image_queue' = image_queue
          /\ Range(image_queue) \subseteq Range(image_queue') \cup sent_images'
          /\ pc' = "backoff"]_vars

\* C10: when the permission check before a delivery fails, the loop is
\* stopped: is_running() is false afterwards.
PermissionDeniedStops ==
    [][outcome' = "permission_denied" => ~is_running']_vars


\* C11: a cookie_command for the destination the running loop already targets
\* starts no second task (the one task keeps its position and is not asked to
\* stop), reports already-running, and leaves image_queue, sent_images,
\* page_number and the target as they were; "started" is replied only when no
\* task was running.
StartWhileRunningLeavesInstance ==
    [][/\ (response'.msg = "already_running" /\ TARGET_CHANNEL_ID' = effective_target) =>
             /\ is_running /\ is_running'
             /\ pc' = pc
             /\ stop_next_iteration' = stop_next_iteration
             /\ image_queue' = image_queue
             /\ sent_images' = sent_images
             /\ page_number' = page_number
             /\ effective_target' = effective_target
             /\ channel' = channel /\ batch' = batch
       /\ (is_running /\ response'.msg \in {"started", "already_running"}) =>
             response'.msg = "already_running"]_vars

\* cookie_command ran for the channel the tick is sending to, mid-send
StartWhileRunningLeavesInstanceWitness ==
    /\ response.msg = "already_running"
    /\ pc = "sending"
    /\ TARGET_CHANNEL_ID = channel
    /\ image_queue # <<>>

\* C12: scrape and drain are sequential -- a scrape runs only at Step 1 with an
\* empty queue and no batch awaiting its send result; no scrape happens while
\* a send is awaited; draining is entered only from Step 1 (scrape completed or
\* skipped) or from the inter-batch sleep.
ScrapeDrainSequential ==
    [][/\ outcome' \in {"fetch_ok", "fetch_error"} =>
             /\ pc = "step1"
             /\ image_queue = <<>>
             /\ batch = <<>>
       /\ requested' # NoRequest => outcome' \in {"fetch_ok", "fetch_error"}
       /\ pc = "sending" => requested' = NoRequest
       /\ (pc' = "drain" /\ pc # "drain") => pc \in {"step1", "batch_delay"}
       /\ (pc' = "sending" /\ pc # "sending") => pc = "drain"]_vars

\* a later scrape found references and the tick is about to drain them
ScrapeDrainSequentialWitness ==
    /\ outcome = "fetch_ok"
    /\ pc = "drain"
    /\ image_queue # <<>>
    /\ sent_images # {}

\* C13: after a send fails the tick pops and sends nothing more; it sleeps
\* CHECK_INTERVAL and returns; the queue is untouched until the next pop, and
\* the batch popped next begins with the references that failed.
AbortDrainOnFailure ==
    [][/\ outcome' = "send_failed" => pc' = "backoff"
       /\ (pc = "backoff" /\ pc' # "backoff") =>
             /\ pc' \in {"waiting", "stopped"}
             /\ image_queue' = image_queue
       /\ (last_failed # <<>> /\ image_queue' # image_queue) => pc = "drain"
       /\ (last_failed # <<>> /\ pc = "drain" /\ pc' # "drain") =>
             /\ Len(image_queue) >= Len(last_failed)
             /\ SubSeq(image_queue, 1, Len(last_failed)) = last_failed
             /\ pc' = "sending" => SubSeq(batch', 1, Len(last_failed)) = last_failed]_vars

\* a later tick is about to pop a queue that begins with the failed batch
AbortDrainOnFailureWitness ==
    /\ pc = "drain"
    /\ last_failed # <<>>
    /\ Len(image_queue) > Len(last_failed)

\* C14: while channel.send is awaited nothing but the handling of its result
\* changes image_queue, sent_images, page_number or the popped batch, and no
\* slash command ever changes image_queue, sent_images or page_number.
SingleWriter ==
    [][/\ (pc = "sending" /\ outcome' \notin {"send_ok", "send_failed"}) =>
             /\ image_queue' = image_queue
             /\ sent_images' = sent_images
             /\ page_number' = page_number
             /\ batch' = batch
       /\ response'.msg # "none" =>
             /\ image_queue' = image_queue
             /\ sent_images' = sent_images
             /\ page_number' = page_number]_vars

\* stop_command ran while a send was awaited with references still queued
SingleWriterWitness ==
    /\ pc = "sending"
    /\ response.msg = "stopped"
    /\ image_queue # <<>>
    /\ batch # <<>>

\* C15: a tick with no effective target, or whose channel cannot be resolved,
\* scrapes nothing, delivers nothing, leaves image_queue, sent_images and
\* page_number alone and sleeps CHECK_INTERVAL; the task is still running, and
\* after the sleep it waits for the next tick unless stop_command was issued.
UnresolvedTickBacksOff ==
    [][/\ outcome' \in {"no_target", "unresolved"} =>
             /\ pc' = "backoff"
             /\ is_running'
             /\ requested' = NoRequest
             /\ batch' = <<>>
             /\ image_queue' = image_queue
             /\ sent_images' = sent_images
             /\ page_number' = page_number
       /\ (TickEnabled /\ effective_target = None /\ pc' # pc) => outcome' = "no_target"
       /\ (pc = "resolving" /\ pc' \notin {"resolving", "step1"}) => outcome' = "unresolved"
       /\ (pc = "backoff" /\ pc' # "backoff") =>
             /\ pc' = IF stop_next_iteration THEN "stopped" ELSE "waiting"
             /\ image_queue' = image_queue
             /\ sent_images' = sent_images
             /\ page_number' = page_number]_vars

\* the channel could not be resolved while references were queued and no stop
\* was pending
UnresolvedTickBacksOffWitness ==
    /\ outcome = "unresolved"
    /\ pc = "backoff"
    /\ image_queue # <<>>
    /\ ~stop_next_iteration

\* C16: every scrape requests the base url when page_number = 0 and otherwise
\* the base url with offset page_number * 42; so after a scrape that found
\* nothing at cursor c the next request carries offset (c + 1) * 42, and after
\* one that found references it is the base url.
ScrapeTarget ==
    [][outcome' \in {"fetch_ok", "fetch_error"} =>
          /\ requested' = IF page_number = 0
                          THEN [base |-> "SCRAPE_URL", paged |-> FALSE, pid |-> 0]
                          ELSE [base |-> "SCRAPE_URL", paged |-> TRUE, pid |-> page_number * 42]
          /\ outcome' = "fetch_ok" =>
                scrape_url(page_number') =
                   IF Len(image_queue') > Len(image_queue)
                   THEN [base |-> "SCRAPE_URL", paged |-> FALSE, pid |-> 0]
                   ELSE [base |-> "SCRAPE_URL", paged |-> TRUE, pid |-> (page_number + 1) * 42]]_vars

\* a scrape of the third page (offset 84)
ScrapeTargetWitness ==
    /\ outcome \in {"fetch_ok", "fetch_error"}
    /\ requested.paged
    /\ requested.pid = 84

\* C17: image_queue holds each Reference at most once.
AdmissionUnique ==
    \A i, j \in 1..Len(image_queue) : image_queue[i] = image_queue[j] => i = j

\* C18: after a cookie_command that replied success and no later stop_command
\* (TARGET_CHANNEL_ID is set by the one and cleared by the other) the
\* background task is running.
StartNeverLost ==
    TARGET_CHANNEL_ID # None => is_running


\* C19: if the instance is never stopped and from some point on the channel
\* resolves, every permission check passes and every send succeeds, then every
\* Reference ever appended to image_queue is eventually in sent_images.
EventualDelivery ==
    (<>[](outcome \notin {"unresolved", "permission_denied", "send_failed"})) =>
        \A r \in References : [](r \in appended => <>(r \in sent_images))

====
